---- MODULE Spec2Model ----
(***************************************************************************)
(* The background task queue (database.py) and the worker that executes    *)
(* one content-generation task at a time (worker.py).                      *)
(*                                                                         *)
(* The store is the background_tasks table.  Each worker process runs      *)
(* run_worker_loop; every database call and every call to an external      *)
(* collaborator is one step, so that several worker processes interleave   *)
(* exactly where the code lets them.                                       *)
(***************************************************************************)
EXTENDS Integers, Sequences, FiniteSets, TLC

\* ------------------------------------------------------------------ bounds

\* Number of task ids that uuid4 can draw, and of rows a single worker's queue
\* is filled with.
MaxTasks == 2

\* Number of rows in the store that two worker processes share.
MaxShared == 1

\* Largest limit get_pending_tasks is called with when it is checked alone.
MaxLimit == 3

\* ------------------------------------------------------- program constants

\* WORKER_CONFIG['max_task_retries'], read by get_pending_tasks.
max_task_retries == 3

\* The two worker processes that share the store.
Workers == {"w1", "w2"}

TaskIds == 1..MaxTasks

\* process_single_task: required_payload_keys, in the order of the list.
required_payload_keys ==
    <<"brief_id", "prompt", "target_word_count", "keyword", "callback_url">>

RequiredKeySet == {required_payload_keys[i] : i \in 1..Len(required_payload_keys)}

\* ----------------------------------------------------------------- payloads

\* A payload is the decoded JSON object: the keys it holds, and the value it
\* holds under callback_url ("" when that value is empty, null or absent).
FullPayload == [keys |-> RequiredKeySet, callback_url |-> "http://wp/callback"]

NoUrlPayload == [keys |-> RequiredKeySet, callback_url |-> ""]

MissingKeysPayload ==
    [keys |-> RequiredKeySet \ {"prompt", "keyword"},
     callback_url |-> "http://wp/callback"]

EmptyPayload == [keys |-> {}, callback_url |-> ""]

\* What callers hand to add_task: the webhook always sends generate_content with
\* the five keys; add_task itself accepts any task_type and payload.
TaskInputs ==
    { [task_type |-> "generate_content", payload |-> p] :
        p \in {FullPayload, NoUrlPayload, MissingKeysPayload, EmptyPayload} }
    \cup { [task_type |-> "other", payload |-> FullPayload] }

\* ----------------------------------------------------------- error messages

\* A message is its fixed text and the values formatted into it.
Msg(kind, arg) == [kind |-> kind, arg |-> arg]

\* SQL NULL / Python None in last_error and error_message.
NoError == Msg("NULL", <<>>)

\* ------------------------------------------------------------------- rows

\* A slot of the table that holds no row.
NoRow ==
    [task_type |-> "", payload |-> EmptyPayload, status |-> "absent",
     created_at |-> 0, attempts |-> 0, last_error |-> NoError]

RowIds(store) == {t \in DOMAIN store : store[t].status # "absent"}

\* CREATE TABLE background_tasks: status DEFAULT 'pending', attempts DEFAULT 0,
\* last_error NULL; add_task's INSERT sets status 'pending' and the timestamps.
NewRow(task_type, payload, created) ==
    [task_type |-> task_type, payload |-> payload, status |-> "pending",
     created_at |-> created, attempts |-> 0, last_error |-> NoError]

\* add_task: INSERT under PRIMARY KEY task_id.  A duplicate key, or a missing
\* connection, raises or returns early: nothing is inserted.
InsertBuggy(store, task_id, row, up) ==
    IF up THEN [store EXCEPT ![task_id] = row] ELSE store

InsertRow(store, task_id, row, up) ==
    IF up /\ store[task_id].status = "absent"
    THEN [store EXCEPT ![task_id] = row]
    ELSE store

\* An add_task that returns its id whatever happened to the INSERT.
AddTaskReturnsAlways(store, task_id, up) == task_id

\* add_task's return value: the task_id, or None (here 0).
AddTaskReturns(store, task_id, up) ==
    IF up /\ store[task_id].status = "absent" THEN task_id ELSE 0

\* ------------------------------------------------------- get_pending_tasks

\* The WHERE clause of get_pending_tasks.
EligibleNoRetryBound(r) ==
    (r.status = "pending" \/ r.status = "error") /\ r.status # "skip"

Eligible(r) ==
    (r.status = "pending" \/ (r.status = "error" /\ r.attempts < max_task_retries))
    /\ r.status # "skip"

\* ORDER BY created_at ASC: every order of the ids in S that is ascending in
\* created_at (rows created in the same second come in any order).
OrderedBy(store, S) ==
    { s \in [1..Cardinality(S) -> S] :
        /\ \A i, j \in 1..Cardinality(S) : i # j => s[i] # s[j]
        /\ \A i, j \in 1..Cardinality(S) :
             i < j => store[s[i]].created_at <= store[s[j]].created_at }

Min(a, b) == IF a < b THEN a ELSE b

\* The dict get_pending_tasks returns for a row (SELECT task_id, task_type,
\* payload, attempts).
TaskDict(store, t) ==
    [task_id |-> t, task_type |-> store[t].task_type,
     payload |-> store[t].payload, attempts |-> store[t].attempts]

\* get_pending_tasks(limit): the lists it can return.  Without a connection it
\* returns [].
GetPendingTasks(store, limit, up) ==
    IF ~up THEN {<<>>}
    ELSE LET elig == {t \in RowIds(store) : Eligible(store[t])}
         IN  { [i \in 1..Min(limit, Cardinality(elig)) |-> TaskDict(store, s[i])] :
                 s \in OrderedBy(store, elig) }

\* ------------------------------------------------------ update_task_status

\* attempts = %s: an omitted parameter stores 0.
IfNullZero(param, current) == IF param = <<>> THEN 0 ELSE param[1]

\* attempts = IFNULL(%s, attempts): the parameter is <<>> for None, <<n>> for n.
IfNull(param, current) == IF param = <<>> THEN current ELSE param[1]

\* An UPDATE that counts the call: attempts = attempts + 1.
UpdateTaskStatusCounting(store, task_id, status, attempts, error_message, up) ==
    IF up /\ store[task_id].status # "absent"
    THEN [store EXCEPT ![task_id] =
            [@ EXCEPT !.status = status,
                      !.attempts = @ + 1,
                      !.last_error = error_message]]
    ELSE store

\* update_task_status: the UPDATE ... WHERE task_id = %s.
UpdateTaskStatus(store, task_id, status, attempts, error_message, up) ==
    IF up /\ store[task_id].status # "absent"
    THEN [store EXCEPT ![task_id] =
            [@ EXCEPT !.status = status,
                      !.attempts = IfNull(attempts, @),
                      !.last_error = error_message]]
    ELSE store

\* update_task_status's return value, cursor.rowcount > 0: MySQL counts a row
\* only when the UPDATE changes it, and updated_at (second precision) changes
\* unless the previous write fell in the same second.
UpdateReturns(store, task_id, status, attempts, error_message, up, sameSecond) ==
    /\ up
    /\ store[task_id].status # "absent"
    /\ \/ UpdateTaskStatus(store, task_id, status, attempts, error_message, up) # store
       \/ ~sameSecond

\* A mark that adds 1 to the attempts the row holds at the time of the UPDATE.
MarkTaskProcessingInPlace(store, task_id, attempts, up) ==
    UpdateTaskStatus(store, task_id, "processing",
                     <<store[task_id].attempts + 1>>, NoError, up)

\* mark_task_processing: update_task_status(task_id, 'processing',
\* attempts=attempts+1), with the attempts the caller fetched.
MarkTaskProcessing(store, task_id, attempts, up) ==
    UpdateTaskStatus(store, task_id, "processing", <<attempts + 1>>, NoError, up)

MarkReturns(store, task_id, attempts, up, sameSecond) ==
    UpdateReturns(store, task_id, "processing", <<attempts + 1>>, NoError, up,
                  sameSecond)

\* ------------------------------------------- process_single_task: decisions

\* "if not payload": an empty dict (also what an undecodable payload becomes).
Truthy(payload) == payload.keys # {}

\* missing_keys = [key for key in required_payload_keys if key not in payload]
IsMissing(payload, key) == key \notin payload.keys

MissingKeys(payload) ==
    SelectSeq(required_payload_keys, LAMBDA key : IsMissing(payload, key))

\* The message the validation block writes; NoError when the payload passes.
ValidationErrorAlwaysKeys(payload) ==
    IF MissingKeys(payload) # <<>>
    THEN Msg("Task payload missing required keys", MissingKeys(payload))
    ELSE NoError

ValidationError(payload) ==
    IF ~Truthy(payload)
    THEN Msg("Invalid or empty payload received.", <<>>)
    ELSE IF MissingKeys(payload) # <<>>
    THEN Msg("Task payload missing required keys", MissingKeys(payload))
    ELSE NoError

\* callback_payload as built before the try block ('status': 'error' # Default).
DefaultCallbackPayload ==
    [status |-> "error", generated_post_id |-> "None",
     error_message |-> Msg("Task execution did not complete successfully.", <<>>)]

\* Locals of one execution: callback_payload and final_task_status.
Outcome(cbp, fts) == [callback_payload |-> cbp, final_task_status |-> fts]

\* The else branch for a task_type other than 'generate_content'.
UnknownTaskType(cbp, task_type) ==
    Outcome([cbp EXCEPT !.error_message =
                Msg("Unknown task type received", <<task_type>>)], "error")

\* The processing block without its handler: nothing is recorded.
OnProcessingExceptionUnhandled(cbp, exc) == Outcome(cbp, "processing")

\* except Exception as processing_err: in the main processing block.
OnProcessingException(cbp, exc) ==
    Outcome([cbp EXCEPT !.status = "error",
                        !.error_message =
                            Msg("Unexpected error processing task", <<exc>>)],
            "error")

\* post_result['blog_post'].get('error', 'Unknown WP error')
ErrorDetail(post) ==
    IF post = "error_exception" THEN "exception text" ELSE "Unknown WP error"

\* The if / elif / else on post_result after the publish call returned.
\* post is what post_content_to_wordpress returned: blog_post status 'success',
\* status 'error' with an 'error' key (an exception), status 'error' with only
\* the 'response' (create_post returned nothing), or None.  (The brief the
\* worker passes has no content_recommendation, so category_update is always
\* 'not_applicable' and its error branch is never taken.)
AfterPublishNoErrorBranch(cbp, fts, post, gen_error) ==
    IF post = "success"
    THEN Outcome([cbp EXCEPT !.status = "success", !.generated_post_id = "id",
                             !.error_message = NoError], "completed")
    ELSE Outcome([cbp EXCEPT !.error_message =
                    Msg("Content generation failed", <<gen_error>>)], "error")

AfterPublishKeepsMessage(cbp, fts, post, gen_error) ==
    IF post = "success"
    THEN Outcome([cbp EXCEPT !.status = "success", !.generated_post_id = "id"],
                 "completed")
    ELSE Outcome([cbp EXCEPT !.error_message =
                    Msg("Content generated, but WP post creation failed",
                        <<ErrorDetail(post)>>)], "error")

AfterPublish(cbp, fts, post, gen_error) ==
    IF post = "success"
    THEN Outcome([cbp EXCEPT !.status = "success", !.generated_post_id = "id",
                             !.error_message = NoError], "completed")
    ELSE IF post \in {"error_exception", "error_response"}
    THEN Outcome([cbp EXCEPT !.error_message =
                    Msg("Content generated, but WP post creation failed",
                        <<ErrorDetail(post)>>)], "error")
    ELSE Outcome([cbp EXCEPT !.error_message =
                    Msg("Content generation failed", <<gen_error>>)], "error")

\* The finally block up to the final write: the callback POST and its handlers.
\* result is what requests.post / raise_for_status did: "ok" (2xx),
\* "request_exception" (network error, timeout, non-2xx), "exception" (any
\* other), or "not_sent" when callback_url is empty and no POST is made.  (The
\* ValueError clause needs WP_API_USER or WP_API_APP_PASSWORD to be unset,
\* which "Initialize Services" has already ruled out in the same process.)
AfterCallbackKeepsStatus(cbp, fts, callback_url, result) ==
    IF callback_url # "" /\ result # "ok"
    THEN Outcome([cbp EXCEPT !.error_message = Msg("Callback error", <<>>)], fts)
    ELSE Outcome(cbp, fts)

AfterCallbackOverridesNoUrl(cbp, fts, callback_url, result) ==
    IF callback_url # "" /\ result = "ok"
    THEN Outcome(cbp, fts)
    ELSE Outcome([cbp EXCEPT !.error_message =
                    Msg("Missing callback URL in task payload", <<>>)], "error")

AfterCallbackAlwaysError(cbp, fts, callback_url, result) ==
    Outcome([cbp EXCEPT !.error_message = Msg("Callback error", <<>>)], "error")

AfterCallback(cbp, fts, callback_url, result) ==
    IF callback_url # ""
    THEN IF result = "ok"
         THEN Outcome(cbp, fts)
         ELSE IF result = "request_exception"
         THEN Outcome([cbp EXCEPT !.error_message =
                         Msg("Processing status was, but callback failed",
                             <<cbp.status>>)], "error")
         ELSE Outcome([cbp EXCEPT !.error_message = Msg("Callback error", <<>>)],
                      "error")
    ELSE Outcome([cbp EXCEPT !.error_message =
                    Msg("Missing callback URL in task payload", <<>>)], fts)

\* -------------------------------------------------------------------- state

VARIABLES
    tasks,              \* the background_tasks table: task_id -> row
    now,                \* the second the last row was created in
    dbUp,               \* whether get_db_connection() yields a connection
    pc,                 \* where each worker process is in run_worker_loop
    tasks_limit,        \* run_worker_loop's tasks_limit (the limit it fetches with)
    pending_tasks,      \* what get_pending_tasks returned to the worker
    generated,          \* (generated_content, gen_error) of generate_content
    featured_image_id,  \* what generate_and_upload_featured_image returned
    post_result,        \* what post_content_to_wordpress returned
    callback_payload,   \* callback_payload of the execution
    final_task_status,  \* final_task_status of the execution
    response,           \* what the callback POST did
    calls,              \* external calls made in the execution, in order
    interrupted,        \* a KeyboardInterrupt is propagating out of the try block
    wp_posts,           \* the tasks the WordPress site holds a post for
    gen                 \* the locals of one generate_content invocation

vars ==
    <<tasks, now, dbUp, pc, tasks_limit, pending_tasks, generated,
      featured_image_id, post_result, callback_payload, final_task_status,
      response, calls, interrupted, wp_posts, gen>>

\* task_to_process = pending_tasks[0], the task process_single_task is given.
NoTask == [task_id |-> 0, task_type |-> "", payload |-> EmptyPayload, attempts |-> 0]

task_to_process(w) ==
    IF pending_tasks[w] = <<>> THEN NoTask ELSE pending_tasks[w][1]

\* The locals of process_single_task.
locals ==
    <<generated, featured_image_id, post_result, callback_payload,
      final_task_status, response, calls, interrupted>>

\* No generate_content invocation is under way.
GenNotRunning == [pc |-> "none"]

\* initialize_schema has created an empty table; every worker is at the top of
\* its loop.
Init ==
    /\ tasks = [t \in TaskIds |-> NoRow]
    /\ now = 0
    /\ dbUp = TRUE
    /\ pc = [w \in Workers |-> "fetch"]
    /\ tasks_limit = 1
    /\ pending_tasks = [w \in Workers |-> <<>>]
    /\ generated = [w \in Workers |-> "unset"]
    /\ featured_image_id = [w \in Workers |-> "unset"]
    /\ post_result = [w \in Workers |-> "unbound"]
    /\ callback_payload = [w \in Workers |-> DefaultCallbackPayload]
    /\ final_task_status = [w \in Workers |-> "unset"]
    /\ response = [w \in Workers |-> "unset"]
    /\ calls = [w \in Workers |-> <<>>]
    /\ interrupted = [w \in Workers |-> FALSE]
    /\ wp_posts = {}
    /\ gen = GenNotRunning

\* -------------------------------------------------------------- environment

\* The store becomes unreachable, or reachable again.
DbToggle ==
    /\ dbUp' = ~dbUp
    /\ UNCHANGED <<tasks, now, pc, tasks_limit, gen, wp_posts, pending_tasks, locals>>

\* add_task(task_type, payload): uuid4 draws the id, datetime.now() the second.
AddTask(maxRows) ==
    \E task_id \in TaskIds, input \in TaskInputs, created \in {now, now + 1} :
        /\ Cardinality(RowIds(tasks)) < maxRows
        /\ created < MaxTasks
        /\ tasks' = InsertRow(tasks, task_id,
                              NewRow(input.task_type, input.payload, created), dbUp)
        /\ now' = IF tasks' # tasks THEN created ELSE now
        /\ UNCHANGED <<dbUp, pc, tasks_limit, gen, wp_posts, pending_tasks, locals>>

\* ------------------------------------------------------------ the worker loop

\* process_single_task returns to run_worker_loop: its locals are gone, and
\* pending_tasks is not read again before the next cycle resets it.
Return(w) ==
    /\ pc' = [pc EXCEPT ![w] = "sleep"]
    /\ pending_tasks' = [pending_tasks EXCEPT ![w] = <<>>]
    /\ generated' = [generated EXCEPT ![w] = "unset"]
    /\ featured_image_id' = [featured_image_id EXCEPT ![w] = "unset"]
    /\ post_result' = [post_result EXCEPT ![w] = "unbound"]
    /\ callback_payload' = [callback_payload EXCEPT ![w] = DefaultCallbackPayload]
    /\ final_task_status' = [final_task_status EXCEPT ![w] = "unset"]
    /\ response' = [response EXCEPT ![w] = "unset"]
    /\ calls' = [calls EXCEPT ![w] = <<>>]
    /\ UNCHANGED interrupted

\* run_worker_loop ends (break, or an exception no handler catches): the
\* process is gone with everything it held.
Exit(w) ==
    /\ pc' = [pc EXCEPT ![w] = "exited"]
    /\ pending_tasks' = [pending_tasks EXCEPT ![w] = <<>>]
    /\ generated' = [generated EXCEPT ![w] = "unset"]
    /\ featured_image_id' = [featured_image_id EXCEPT ![w] = "unset"]
    /\ post_result' = [post_result EXCEPT ![w] = "unbound"]
    /\ callback_payload' = [callback_payload EXCEPT ![w] = DefaultCallbackPayload]
    /\ final_task_status' = [final_task_status EXCEPT ![w] = "unset"]
    /\ response' = [response EXCEPT ![w] = "unset"]
    /\ calls' = [calls EXCEPT ![w] = <<>>]
    /\ interrupted' = [interrupted EXCEPT ![w] = FALSE]

\* run_worker_loop: pending_tasks = database.get_pending_tasks(limit=tasks_limit)
Fetch(w) ==
    /\ pc[w] = "fetch"
    /\ \E fetched \in GetPendingTasks(tasks, tasks_limit, dbUp) :
         /\ pending_tasks' = [pending_tasks EXCEPT ![w] = fetched]
         /\ pc' = [pc EXCEPT ![w] = IF fetched # <<>> THEN "process" ELSE "sleep"]
    /\ UNCHANGED <<tasks, now, dbUp, tasks_limit, gen, wp_posts, locals>>

\* process_single_task, payload validation fails: write 'error' and return.
ValidationFail(w) ==
    /\ pc[w] = "process"
    /\ ValidationError(task_to_process(w).payload) # NoError
    /\ tasks' = UpdateTaskStatus(tasks, task_to_process(w).task_id, "error", <<>>,
                                 ValidationError(task_to_process(w).payload), dbUp)
    /\ Return(w)
    /\ UNCHANGED <<now, dbUp, tasks_limit, gen, wp_posts>>

\* process_single_task: "if not database.mark_task_processing(task_id, attempts):
\* return".
MarkProcessing(w) ==
    /\ pc[w] = "process"
    /\ ValidationError(task_to_process(w).payload) = NoError
    /\ tasks' = MarkTaskProcessing(tasks, task_to_process(w).task_id,
                                   task_to_process(w).attempts, dbUp)
    /\ \E sameSecond \in BOOLEAN :
         IF MarkReturns(tasks, task_to_process(w).task_id,
                        task_to_process(w).attempts, dbUp, sameSecond)
         THEN /\ pc' = [pc EXCEPT ![w] = "init"]
              /\ UNCHANGED <<pending_tasks, locals>>
         ELSE Return(w)
    /\ UNCHANGED <<now, dbUp, tasks_limit, gen, wp_posts>>

\* error_message of the two except clauses of "Initialize Services": str(ve)
\* for a ValueError, "Unexpected error initializing services ..." otherwise.
InitErrorMessage(init) ==
    IF init = "ValueError"
    THEN Msg("str(ve)", <<>>)
    ELSE Msg("Unexpected error initializing services for task", <<init>>)

\* process_single_task, "Initialize Services": a ValueError (missing key or
\* credential) or any other exception writes 'error' and returns; otherwise the
\* locals of "Execute Task Logic" are set and the task type is looked at.
InitServices(w) ==
    /\ pc[w] = "init"
    /\ \E init \in {"ok", "ValueError", "Exception"} :
         IF init = "ok"
         THEN /\ UNCHANGED <<tasks, pending_tasks, generated, featured_image_id,
                             post_result, response, calls, interrupted>>
              /\ IF task_to_process(w).task_type = "generate_content"
                 THEN /\ callback_payload' =
                           [callback_payload EXCEPT ![w] = DefaultCallbackPayload]
                      /\ final_task_status' =
                           [final_task_status EXCEPT ![w] = "error"]
                      /\ pc' = [pc EXCEPT ![w] = "text"]
                 ELSE LET o == UnknownTaskType(DefaultCallbackPayload,
                                               task_to_process(w).task_type)
                      IN  /\ callback_payload' =
                               [callback_payload EXCEPT ![w] = o.callback_payload]
                          /\ final_task_status' =
                               [final_task_status EXCEPT ![w] = o.final_task_status]
                          /\ pc' = [pc EXCEPT ![w] = "callback"]
         ELSE /\ tasks' = UpdateTaskStatus(tasks, task_to_process(w).task_id,
                                          "error", <<>>, InitErrorMessage(init), dbUp)
              /\ Return(w)
    /\ UNCHANGED <<now, dbUp, tasks_limit, gen, wp_posts>>

\* A text step after which the pipeline goes on whatever was returned.
GenerateContentGoesOn(w) ==
    /\ pc[w] = "text"
    /\ \E g \in {"text", "degraded", "none", "raise"} :
         generated' = [generated EXCEPT ![w] = g]
    /\ pc' = [pc EXCEPT ![w] = "image"]
    /\ calls' = [calls EXCEPT ![w] = Append(@, "text")]
    /\ UNCHANGED <<tasks, now, dbUp, tasks_limit, gen, wp_posts, pending_tasks,
                   featured_image_id, post_result, callback_payload,
                   final_task_status, response, interrupted>>

\* workflow_service.generate_content(mock_brief): text with no error, degraded
\* text with an error marker, (None, error), or an exception.  With no text
\* the image and publish calls are skipped and "if post_result and ..." reads
\* a local that was never bound: UnboundLocalError, caught by the except.
GenerateContent(w) ==
    /\ pc[w] = "text"
    /\ \E g \in {"text", "degraded", "none", "raise"} :
         /\ generated' = [generated EXCEPT ![w] = g]
         /\ IF g \in {"text", "degraded"}
            THEN /\ pc' = [pc EXCEPT ![w] = "image"]
                 /\ UNCHANGED <<callback_payload, final_task_status>>
            ELSE LET o == OnProcessingException(callback_payload[w],
                             IF g = "none" THEN "UnboundLocalError: post_result"
                                           ELSE "generate_content raised")
                 IN  /\ callback_payload' =
                          [callback_payload EXCEPT ![w] = o.callback_payload]
                     /\ final_task_status' =
                          [final_task_status EXCEPT ![w] = o.final_task_status]
                     /\ pc' = [pc EXCEPT ![w] = "callback"]
    /\ calls' = [calls EXCEPT ![w] = Append(@, "text")]
    /\ UNCHANGED <<tasks, now, dbUp, tasks_limit, gen, wp_posts, pending_tasks, featured_image_id,
                   post_result, response, interrupted>>

\* An image step that is run twice.
GenerateImageRepeated(w) ==
    /\ pc[w] = "image"
    /\ \E i \in {"id", "None"} :
         featured_image_id' = [featured_image_id EXCEPT ![w] = i]
    /\ calls' = [calls EXCEPT ![w] = Append(Append(@, "image"), "image")]
    /\ pc' = [pc EXCEPT ![w] = "publish"]
    /\ UNCHANGED <<tasks, now, dbUp, tasks_limit, gen, wp_posts, pending_tasks, generated,
                   post_result, callback_payload, final_task_status, response,
                   interrupted>>

\* An image step whose failure is fatal: no image, no publish.
GenerateImageFatal(w) ==
    /\ pc[w] = "image"
    /\ \E i \in {"id", "None"} :
         /\ featured_image_id' = [featured_image_id EXCEPT ![w] = i]
         /\ pc' = [pc EXCEPT ![w] = IF i = "None" THEN "callback" ELSE "publish"]
    /\ calls' = [calls EXCEPT ![w] = Append(@, "image")]
    /\ UNCHANGED <<tasks, now, dbUp, tasks_limit, gen, wp_posts, pending_tasks, generated,
                   post_result, callback_payload, final_task_status, response,
                   interrupted>>

\* workflow_service.generate_and_upload_featured_image: an id, or None on any
\* failure (it catches every exception).
GenerateImage(w) ==
    /\ pc[w] = "image"
    /\ \E i \in {"id", "None"} :
         featured_image_id' = [featured_image_id EXCEPT ![w] = i]
    /\ calls' = [calls EXCEPT ![w] = Append(@, "image")]
    /\ pc' = [pc EXCEPT ![w] = "publish"]
    /\ UNCHANGED <<tasks, now, dbUp, tasks_limit, gen, wp_posts, pending_tasks, generated,
                   post_result, callback_payload, final_task_status, response,
                   interrupted>>

\* gen_error as generate_content returned it.
GenError(g) == IF g = "text" THEN "None" ELSE "gen_error"

\* publish_to_wordpress creates a new post on the site on every call that
\* succeeds: it POSTs to the posts endpoint and never looks for a post an
\* earlier execution of the same task created.
PublishToWordpress(posts, task_id, p) ==
    IF p = "success" THEN posts \cup {task_id} ELSE posts

\* workflow_service.post_content_to_wordpress, then the if / elif / else on
\* its result.
Publish(w) ==
    /\ pc[w] = "publish"
    /\ \E p \in {"success", "error_exception", "error_response"} :
         /\ post_result' = [post_result EXCEPT ![w] = p]
         /\ wp_posts' = PublishToWordpress(wp_posts, task_to_process(w).task_id, p)
         /\ LET o == AfterPublish(callback_payload[w], final_task_status[w], p,
                                  GenError(generated[w]))
            IN  /\ callback_payload' =
                     [callback_payload EXCEPT ![w] = o.callback_payload]
                /\ final_task_status' =
                     [final_task_status EXCEPT ![w] = o.final_task_status]
    /\ calls' = [calls EXCEPT ![w] = Append(@, "publish")]
    /\ pc' = [pc EXCEPT ![w] = "callback"]
    /\ UNCHANGED <<tasks, now, dbUp, tasks_limit, gen, pending_tasks, generated,
                   featured_image_id, response, interrupted>>

\* A finally block that sends no callback.
CallbackSkipped(w) ==
    /\ pc[w] = "callback"
    /\ response' = [response EXCEPT ![w] = "not_sent"]
    /\ pc' = [pc EXCEPT ![w] = "final"]
    /\ UNCHANGED <<tasks, now, dbUp, tasks_limit, gen, wp_posts, pending_tasks,
                   generated, featured_image_id, post_result, callback_payload,
                   final_task_status, calls, interrupted>>

\* The finally block: the callback POST when callback_url is not empty.
Callback(w) ==
    /\ pc[w] = "callback"
    /\ \E r \in IF task_to_process(w).payload.callback_url # ""
                THEN {"ok", "request_exception", "exception"}
                ELSE {"not_sent"} :
         /\ response' = [response EXCEPT ![w] = r]
         /\ LET o == AfterCallback(callback_payload[w], final_task_status[w],
                                   task_to_process(w).payload.callback_url, r)
            IN  /\ callback_payload' =
                     [callback_payload EXCEPT ![w] = o.callback_payload]
                /\ final_task_status' =
                     [final_task_status EXCEPT ![w] = o.final_task_status]
         /\ calls' = [calls EXCEPT ![w] =
                        IF r = "not_sent" THEN @ ELSE Append(@, "callback")]
    /\ pc' = [pc EXCEPT ![w] = "final"]
    /\ UNCHANGED <<tasks, now, dbUp, tasks_limit, gen, wp_posts, pending_tasks, generated,
                   featured_image_id, post_result, interrupted>>

\* process_single_task without its last statement.
FinalWriteSkipped(w) ==
    /\ pc[w] = "final"
    /\ UNCHANGED <<tasks, now, dbUp, tasks_limit, gen, wp_posts>>
    /\ IF interrupted[w] THEN Exit(w) ELSE Return(w)

\* "Update Final Task Status in DB": update_task_status(task_id,
\* final_task_status, error_message=callback_payload.get('error_message')).
\* It ends the finally block: a KeyboardInterrupt that was propagating
\* propagates on, out of run_worker_loop.
FinalWrite(w) ==
    /\ pc[w] = "final"
    /\ tasks' = UpdateTaskStatus(tasks, task_to_process(w).task_id,
                                 final_task_status[w], <<>>,
                                 callback_payload[w].error_message, dbUp)
    /\ IF interrupted[w] THEN Exit(w) ELSE Return(w)
    /\ UNCHANGED <<now, dbUp, tasks_limit, gen, wp_posts>>

\* time.sleep(actual_sleep), then the top of the loop.
Sleep(w) ==
    /\ pc[w] = "sleep"
    /\ pc' = [pc EXCEPT ![w] = "fetch"]
    /\ UNCHANGED <<tasks, now, dbUp, tasks_limit, gen, wp_posts, pending_tasks, locals>>

\* A KeyboardInterrupt (SIGINT) reaches the worker process.  Around time.sleep
\* it is caught and breaks the loop.  Anywhere else no handler catches it
\* ("except Exception" does not): inside the try block of "Execute Task Logic"
\* the finally block still runs (callback and final write) before it
\* propagates; before that block, or inside the finally block, it leaves
\* process_single_task and run_worker_loop at once.
Interrupt(w) ==
    /\ pc[w] # "exited"
    /\ IF pc[w] \in {"text", "image", "publish"}
       THEN /\ pc' = [pc EXCEPT ![w] = "callback"]
            /\ interrupted' = [interrupted EXCEPT ![w] = TRUE]
            /\ UNCHANGED <<pending_tasks, generated, featured_image_id,
                           post_result, callback_payload, final_task_status,
                           response, calls>>
       ELSE Exit(w)
    /\ UNCHANGED <<tasks, now, dbUp, tasks_limit, gen, wp_posts>>

WorkerStep(w) ==
    \/ Fetch(w)
    \/ ValidationFail(w)
    \/ MarkProcessing(w)
    \/ InitServices(w)
    \/ GenerateContent(w)
    \/ GenerateImage(w)
    \/ Publish(w)
    \/ Callback(w)
    \/ FinalWrite(w)
    \/ Sleep(w)

\* Several worker processes against one store.
Next ==
    \/ AddTask(MaxShared)
    \/ DbToggle
    \/ \E w \in Workers : WorkerStep(w)

Spec == Init /\ [][Next]_vars

\* One worker process (the deployment the loop was written for).
NextSingle ==
    \/ AddTask(MaxTasks)
    \/ DbToggle
    \/ WorkerStep("w1")

SpecSingle == Init /\ [][NextSingle]_vars

\* One worker process whose loop keeps running (it always takes its next
\* step, and every call it makes returns), against a store that stays reachable.
NextFair ==
    \/ AddTask(MaxTasks)
    \/ WorkerStep("w1")

FairSingle == Init /\ [][NextFair]_vars /\ WF_vars(WorkerStep("w1"))

\* One worker process that a KeyboardInterrupt can reach at any point.
NextInterrupt ==
    \/ AddTask(MaxTasks)
    \/ DbToggle
    \/ WorkerStep("w1")
    \/ Interrupt("w1")

SpecInterrupt == Init /\ [][NextInterrupt]_vars

\* ------------------------------------------ get_pending_tasks on any table

Statuses == {"pending", "processing", "completed", "error", "skip"}

\* The rows a table can hold: any status (an operator sets 'skip' by hand), any
\* attempts up to one past max_task_retries, one of two creation seconds.
AnyRows ==
    { [NewRow("generate_content", FullPayload, c) EXCEPT
         !.status = st, !.attempts = a] :
        st \in Statuses, a \in 0..(max_task_retries + 1), c \in 0..1 }

\* Any table, any limit, the store up or down; one worker about to fetch.
InitQuery ==
    /\ tasks \in [TaskIds -> AnyRows \cup {NoRow}]
    /\ now = 1
    /\ dbUp \in BOOLEAN
    /\ pc = [w \in Workers |-> "fetch"]
    /\ tasks_limit \in 0..MaxLimit
    /\ pending_tasks = [w \in Workers |-> <<>>]
    /\ generated = [w \in Workers |-> "unset"]
    /\ featured_image_id = [w \in Workers |-> "unset"]
    /\ post_result = [w \in Workers |-> "unbound"]
    /\ callback_payload = [w \in Workers |-> DefaultCallbackPayload]
    /\ final_task_status = [w \in Workers |-> "unset"]
    /\ response = [w \in Workers |-> "unset"]
    /\ calls = [w \in Workers |-> <<>>]
    /\ interrupted = [w \in Workers |-> FALSE]
    /\ wp_posts = {}
    /\ gen = GenNotRunning

NextQuery == Fetch("w1")

SpecQuery == InitQuery /\ [][NextQuery]_vars

\* ----------------------------------------- update_task_status on any table

\* The arguments update_task_status is called with: attempts None or a number,
\* error_message None or a text.
AttemptsArgs == {<<>>, <<0>>, <<max_task_retries - 1>>}

MessageArgs == {NoError, Msg("message", <<>>)}

\* One call of update_task_status on a table that holds any rows.
UpdateCall ==
    /\ \E task_id \in TaskIds, status \in Statuses,
          attempts \in AttemptsArgs, error_message \in MessageArgs :
         tasks' = UpdateTaskStatus(tasks, task_id, status, attempts,
                                   error_message, dbUp)
    /\ UNCHANGED <<now, dbUp, pc, tasks_limit, gen, wp_posts, pending_tasks, locals>>

\* The rows the first call can meet: any status and attempts, last_error NULL
\* (the calls themselves write the texts).
UpdateRows ==
    { [NewRow("generate_content", FullPayload, 0) EXCEPT
         !.status = st, !.attempts = a] :
        st \in Statuses, a \in 0..max_task_retries }

\* Any table of such rows, the store up or down.
InitUpdate ==
    /\ tasks \in [TaskIds -> UpdateRows \cup {NoRow}]
    /\ now = 0
    /\ dbUp \in BOOLEAN
    /\ pc = [w \in Workers |-> "fetch"]
    /\ tasks_limit = 1
    /\ pending_tasks = [w \in Workers |-> <<>>]
    /\ generated = [w \in Workers |-> "unset"]
    /\ featured_image_id = [w \in Workers |-> "unset"]
    /\ post_result = [w \in Workers |-> "unbound"]
    /\ callback_payload = [w \in Workers |-> DefaultCallbackPayload]
    /\ final_task_status = [w \in Workers |-> "unset"]
    /\ response = [w \in Workers |-> "unset"]
    /\ calls = [w \in Workers |-> <<>>]
    /\ interrupted = [w \in Workers |-> FALSE]
    /\ wp_posts = {}
    /\ gen = GenNotRunning

NextUpdate == UpdateCall

SpecUpdate == InitUpdate /\ [][NextUpdate]_vars

\* ===================================================================== claims

\* The worker observed mark_task_processing return true and has not yet
\* returned from process_single_task: it holds its task.
Holds(w) == pc[w] \in {"init", "text", "image", "publish", "callback", "final"}

\* C1: of the workers that fetched a task, at most one observes
\* mark_task_processing return true, so that at most one worker at a time holds
\* the task in 'processing' and runs the pipeline for it.
C1_AtMostOneClaim ==
    \A w1, w2 \in Workers :
        (w1 # w2 /\ Holds(w1) /\ Holds(w2))
            => task_to_process(w1).task_id # task_to_process(w2).task_id

\* C2: once a task's stored status is 'completed' no step moves it back to
\* 'processing' and no get_pending_tasks call returns it.
C2_CompletedNeverReclaimed ==
    [][\A t \in TaskIds :
         tasks[t].status = "completed" =>
            /\ tasks'[t].status # "processing"
            /\ \A w \in Workers :
                 (pc[w] = "fetch" /\ pc'[w] = "process")
                     => task_to_process(w)'.task_id # t]_vars

\* The row was written as 'error' by the validation block of
\* process_single_task.
FailedValidation(r) ==
    /\ r.status = "error"
    /\ r.last_error # NoError
    /\ r.last_error = ValidationError(r.payload)

\* C3: a task written as 'error' because its payload failed validation is
\* never returned by get_pending_tasks (and so never processed) again.
C3_ValidationFailureIsTerminal ==
    [][\A w \in Workers :
         (pc[w] = "fetch" /\ pc'[w] = "process")
             => ~FailedValidation(tasks[task_to_process(w)'.task_id])]_vars

\* The worker has been handed task t by get_pending_tasks.
Fetched(t) ==
    \E w \in Workers : pc[w] = "process" /\ task_to_process(w).task_id = t

\* C4: with one worker whose loop keeps running, every task enqueued as
\* 'pending' is eventually fetched and, its payload being valid, moved to
\* 'processing', whatever older tasks the store holds.
C4_PendingEventuallyProcessed ==
    \A t \in TaskIds :
        (tasks[t].status = "pending")
            ~> IF ValidationError(tasks[t].payload) = NoError
               THEN tasks[t].status = "processing"
               ELSE Fetched(t)

\* What the claims call eligible: 'pending', or 'error' with attempts left.
ClaimEligible(r) ==
    \/ r.status = "pending"
    \/ r.status = "error" /\ r.attempts < max_task_retries

\* C5: get_pending_tasks(limit) returns exactly the min(limit, number eligible)
\* eligible tasks created earliest, in ascending creation order; rows that are
\* 'skip', 'completed', 'processing' or 'error' with no attempts left are never
\* returned.  (Checked for calls that reach the store; without a connection the
\* function returns [].)
C5_FetchReturnsOldestEligible ==
    (pc["w1"] # "fetch" /\ dbUp) =>
        LET res == pending_tasks["w1"]
            ids == {res[i].task_id : i \in 1..Len(res)}
            elig == {t \in TaskIds : tasks[t].status # "absent"
                                      /\ ClaimEligible(tasks[t])}
        IN  /\ Len(res) = Min(tasks_limit, Cardinality(elig))
            /\ Cardinality(ids) = Len(res)
            /\ ids \subseteq elig
            /\ \A i \in 1..Len(res) :
                 /\ res[i].attempts = tasks[res[i].task_id].attempts
                 /\ res[i].payload = tasks[res[i].task_id].payload
                 /\ res[i].task_type = tasks[res[i].task_id].task_type
                 /\ tasks[res[i].task_id].status \notin
                        {"skip", "completed", "processing"}
                 /\ ~(tasks[res[i].task_id].status = "error"
                      /\ tasks[res[i].task_id].attempts >= max_task_retries)
            /\ \A i, j \in 1..Len(res) :
                 i < j => tasks[res[i].task_id].created_at
                              <= tasks[res[j].task_id].created_at
            /\ \A t \in elig \ ids : \A u \in ids :
                 tasks[u].created_at <= tasks[t].created_at

\* C5 happens: a call with limit 2 returned the one eligible row of a table
\* that also holds an 'error' row with no attempts left.
C5_Witness ==
    /\ pc["w1"] = "process"
    /\ dbUp
    /\ tasks_limit = 2
    /\ Len(pending_tasks["w1"]) = 1
    /\ \E t \in TaskIds :
         tasks[t].status = "error" /\ tasks[t].attempts >= max_task_retries

\* C6: every row add_task creates starts 'pending' with attempts 0 under an id
\* no other row has (no existing row is replaced); and when it is the only row,
\* get_pending_tasks(limit=1) returns exactly that task with attempts 0.
C6_NewTaskPendingAndFetched ==
    [][\A t \in TaskIds :
         /\ (tasks[t].status = "absent" /\ tasks'[t].status # "absent") =>
               /\ tasks'[t].status = "pending"
               /\ tasks'[t].attempts = 0
               /\ tasks'[t].last_error = NoError
               /\ \A u \in TaskIds \ {t} : tasks'[u] = tasks[u]
               /\ RowIds(tasks') = {t} =>
                     GetPendingTasks(tasks', 1, TRUE) =
                        { <<[task_id |-> t, task_type |-> tasks'[t].task_type,
                             payload |-> tasks'[t].payload, attempts |-> 0]>> }
         /\ tasks[t].status # "absent" =>
               /\ tasks'[t].status # "absent"
               /\ tasks'[t].task_type = tasks[t].task_type
               /\ tasks'[t].payload = tasks[t].payload
               /\ tasks'[t].created_at = tasks[t].created_at]_vars

\* C6 happens: a worker fetched the only row of the store, as add_task left it.
C6_Witness ==
    \E w \in Workers, t \in TaskIds :
        /\ RowIds(tasks) = {t}
        /\ tasks[t].status = "pending"
        /\ pc[w] = "process"
        /\ task_to_process(w).task_id = t
        /\ task_to_process(w).attempts = 0

\* Worker w's step is the final update_task_status of its execution.
FinalWriteStep(w) == pc[w] = "final" /\ pc'[w] = "sleep"

\* The error messages a failure of the processing itself produces.
ProcessingFailureMessages ==
    { AfterPublish(DefaultCallbackPayload, "error", p, g).callback_payload.error_message :
        p \in {"error_exception", "error_response", "None"},
        g \in {"None", "gen_error"} }
    \cup { OnProcessingException(DefaultCallbackPayload, e).callback_payload.error_message :
             e \in {"UnboundLocalError: post_result", "generate_content raised"} }
    \cup { UnknownTaskType(DefaultCallbackPayload, "other").callback_payload.error_message,
           DefaultCallbackPayload.error_message }

\* C7: when the post was published and the callback POST fails (network error,
\* timeout, non-2xx), the final write persists 'error', with a last_error that
\* says processing had succeeded but the callback failed, which is no
\* processing-failure message.
C7_CallbackFailureOverrides ==
    [][\A w \in Workers :
         (FinalWriteStep(w) /\ dbUp /\ post_result[w] = "success"
          /\ response[w] = "request_exception") =>
            LET r == tasks'[task_to_process(w).task_id]
            IN  /\ r.status = "error"
                /\ r.last_error =
                     Msg("Processing status was, but callback failed", <<"success">>)
                /\ r.last_error \notin ProcessingFailureMessages]_vars

\* C7 happens: a row holds 'error' with the message of a callback that failed
\* after the processing status was 'success'.
C7_Witness ==
    \E t \in TaskIds :
        /\ tasks[t].status = "error"
        /\ tasks[t].last_error =
             Msg("Processing status was, but callback failed", <<"success">>)

\* C8 as claimed: with an empty callback_url the final write persists 'error'
\* even when the post was published.
C8_Original ==
    [][\A w \in Workers :
         (FinalWriteStep(w) /\ dbUp /\ task_to_process(w).payload.callback_url = "")
             => tasks'[task_to_process(w).task_id].status = "error"]_vars

\* C8 as amended: with an empty callback_url no POST is made and last_error is
\* the missing-URL message, but the status is not overridden: the final write
\* persists the status the pipeline computed, 'completed' when the post was
\* published and 'error' otherwise.
C8_MissingUrlKeepsStatus ==
    [][\A w \in Workers :
         (FinalWriteStep(w) /\ dbUp /\ task_to_process(w).payload.callback_url = "") =>
            LET r == tasks'[task_to_process(w).task_id]
            IN  /\ "callback" \notin {calls[w][i] : i \in 1..Len(calls[w])}
                /\ r.status = IF post_result[w] = "success" THEN "completed"
                                                             ELSE "error"
                /\ r.last_error = Msg("Missing callback URL in task payload", <<>>)]_vars

\* C8 happens: a published task with no callback URL was written 'completed'
\* with the missing-URL message.
C8_Witness ==
    \E t \in TaskIds :
        /\ tasks[t].status = "completed"
        /\ tasks[t].payload.callback_url = ""
        /\ tasks[t].last_error = Msg("Missing callback URL in task payload", <<>>)

\* Text was generated and the publish step reported a failure.
PublishFailed(w) ==
    /\ generated[w] \in {"text", "degraded"}
    /\ post_result[w] \in {"error_exception", "error_response"}

WordPressFailureKind == "Content generated, but WP post creation failed"

\* C9 as claimed: when publishing fails after text generation, the final write
\* persists 'error' with a last_error naming the WordPress post creation
\* failure, whether or not the callback is delivered.
C9_Original ==
    [][\A w \in Workers :
         (FinalWriteStep(w) /\ dbUp /\ PublishFailed(w)) =>
            LET r == tasks'[task_to_process(w).task_id]
            IN  /\ r.status = "error"
                /\ r.last_error.kind = WordPressFailureKind]_vars

\* C9 as amended: when publishing fails after text generation, the final write
\* persists 'error'; last_error names the WordPress post creation failure when
\* the callback POST succeeded, and is the callback's own message (callback
\* failed, callback error, missing URL) when it did not.
C9_PublishFailureIsError ==
    [][\A w \in Workers :
         (FinalWriteStep(w) /\ dbUp /\ PublishFailed(w)) =>
            LET r == tasks'[task_to_process(w).task_id]
            IN  /\ r.status = "error"
                /\ response[w] = "ok" =>
                     /\ r.last_error.kind = WordPressFailureKind
                     /\ r.last_error.arg \in
                          {<<"exception text">>, <<"Unknown WP error">>}
                /\ response[w] = "request_exception" =>
                     r.last_error =
                        Msg("Processing status was, but callback failed", <<"error">>)
                /\ response[w] = "exception" =>
                     r.last_error = Msg("Callback error", <<>>)
                /\ response[w] = "not_sent" =>
                     r.last_error =
                        Msg("Missing callback URL in task payload", <<>>)]_vars

\* C9 happens: a row holds 'error' with the WordPress failure message.
C9_Witness ==
    \E t \in TaskIds :
        /\ tasks[t].status = "error"
        /\ tasks[t].last_error.kind = WordPressFailureKind

\* The payload is empty or lacks a required key.
InvalidPayload(payload) ==
    payload.keys = {} \/ RequiredKeySet \ payload.keys # {}

\* Worker w's step is the one process_single_task takes on the task it was
\* given, whose payload is invalid.
InvalidTaskStep(w) ==
    /\ pc[w] = "process"
    /\ pc'[w] # "process"
    /\ InvalidPayload(task_to_process(w).payload)

SeqRange(s) == {s[i] : i \in 1..Len(s)}

\* C10 as claimed: on an invalid payload process_single_task makes no external
\* call and only writes 'error' with a last_error that names the missing keys.
C10_Original ==
    [][\A w \in Workers :
         InvalidTaskStep(w) =>
            LET p == task_to_process(w).payload
                r == tasks'[task_to_process(w).task_id]
            IN  /\ calls[w] = <<>> /\ calls'[w] = <<>>
                /\ pc'[w] = "sleep"
                /\ dbUp =>
                     /\ r.status = "error"
                     /\ SeqRange(r.last_error.arg) = RequiredKeySet \ p.keys]_vars

\* C10 as amended: on an invalid payload process_single_task makes no external
\* call and only writes 'error'; last_error names the missing keys when the
\* payload is not empty, and is the fixed text "Invalid or empty payload
\* received." (naming no key) when it is empty.
C10_InvalidPayloadNoExternalCall ==
    [][\A w \in Workers :
         InvalidTaskStep(w) =>
            LET p == task_to_process(w).payload
                r == tasks'[task_to_process(w).task_id]
            IN  /\ calls[w] = <<>> /\ calls'[w] = <<>>
                /\ pc'[w] = "sleep"
                /\ \A u \in TaskIds \ {task_to_process(w).task_id} :
                     tasks'[u] = tasks[u]
                /\ r.attempts = tasks[task_to_process(w).task_id].attempts
                /\ dbUp =>
                     /\ r.status = "error"
                     /\ IF p.keys = {}
                        THEN r.last_error =
                               Msg("Invalid or empty payload received.", <<>>)
                        ELSE /\ r.last_error.kind =
                                  "Task payload missing required keys"
                             /\ SeqRange(r.last_error.arg) = RequiredKeySet \ p.keys
                             /\ Len(r.last_error.arg) =
                                  Cardinality(RequiredKeySet \ p.keys)]_vars

\* C10 happens: rows written 'error' by the validation block, one naming its
\* two missing keys in the order of the list.
C10_Witness ==
    \E t \in TaskIds :
        /\ tasks[t].status = "error"
        /\ tasks[t].attempts = 0
        /\ tasks[t].last_error =
             Msg("Task payload missing required keys", <<"prompt", "keyword">>)

\* Worker w's step ends an execution of process_single_task that had marked
\* its task 'processing', and the worker goes on to its sleep.
ExecutionEnds(w) == Holds(w) /\ pc'[w] = "sleep"

TerminalStatuses == {"completed", "error"}

Raised(w) ==
    \/ generated[w] \in {"raise", "none"}
    \/ response[w] \in {"request_exception", "exception"}

C13_NoMidTaskCancellation ==
    [][\A w \in Workers :
         (pc[w] # "exited" /\ pc'[w] = "exited" /\ Holds(w) /\ dbUp)
             => tasks'[task_to_process(w).task_id].status \in TerminalStatuses]_vars

\* Worker w's step is a mark_task_processing that returned true.
MarkStep(w) == pc[w] = "process" /\ pc'[w] = "init"

\* Worker w's step ends process_single_task with a write of 'error' to its task.
EndsInError(w) ==
    /\ pc[w] \in {"process", "init", "final"}
    /\ pc'[w] = "sleep"
    /\ dbUp
    /\ tasks'[task_to_process(w).task_id].status = "error"
    /\ tasks'[task_to_process(w).task_id].last_error # NoError

\* C14: attempts counts the moves into 'processing' (every successful
\* mark_task_processing adds exactly 1 to the stored attempts and no other step
\* changes it), and whenever process_single_task ends a task in 'error' its
\* attempts is 1 more than when it was fetched.
C14_AttemptsCountProcessing ==
    [][\A w \in Workers :
         LET t == task_to_process(w).task_id
         IN  /\ MarkStep(w) => tasks'[t].attempts = tasks[t].attempts + 1
             /\ (~MarkStep(w) /\ t # 0) => tasks'[t].attempts = tasks[t].attempts
             /\ EndsInError(w)
                   => tasks'[t].attempts = task_to_process(w).attempts + 1]_vars

\* C15 as claimed: a 'completed' task has a null last_error and an 'error' task
\* a non-null one.
C15_Original ==
    \A t \in TaskIds :
        /\ tasks[t].status = "completed" => tasks[t].last_error = NoError
        /\ tasks[t].status = "error" => tasks[t].last_error # NoError

\* C15 as amended: an 'error' task has a non-null last_error; a 'completed'
\* task has a null last_error when its payload carries a callback URL, and the
\* message "Missing callback URL in task payload" when that URL is empty.
C15_LastErrorMatchesStatus ==
    \A t \in TaskIds :
        /\ tasks[t].status = "error" => tasks[t].last_error # NoError
        /\ tasks[t].status = "completed" =>
              tasks[t].last_error =
                 IF tasks[t].payload.callback_url # ""
                 THEN NoError
                 ELSE Msg("Missing callback URL in task payload", <<>>)
        /\ tasks[t].status \in {"pending", "processing"}
              => tasks[t].last_error = NoError

\* C15 happens: a task with a callback URL was completed and its last_error
\* is null.
C15_Witness ==
    \E t \in TaskIds :
        /\ tasks[t].status = "completed"
        /\ tasks[t].payload.callback_url # ""
        /\ tasks[t].last_error = NoError
        /\ tasks[t].attempts >= 1

\* C16: update_task_status is idempotent: after a call, a second call with the
\* same arguments leaves every row (status, attempts, last_error, payload)
\* exactly as the first call left it.
C16_UpdateIdempotent ==
    [][\A task_id \in TaskIds, status \in Statuses,
         attempts \in AttemptsArgs, error_message \in MessageArgs :
         tasks' = UpdateTaskStatus(tasks, task_id, status, attempts,
                                   error_message, dbUp)
            => UpdateTaskStatus(tasks', task_id, status, attempts,
                                error_message, dbUp) = tasks']_vars

\* C16 happens: a call has written a terminal status, a number of attempts and
\* a message to a row.
C16_Witness ==
    \E t \in TaskIds :
        /\ tasks[t].status = "error"
        /\ tasks[t].attempts = 2
        /\ tasks[t].last_error = Msg("message", <<>>)

\* C17: whenever add_task returns None no row has been added to the store, and
\* whenever it returns a task_id exactly one row, with that id, has been added
\* (and no other row changed).
C17_AddTaskReturnMatchesStore ==
    [][\A task_id \in TaskIds, input \in TaskInputs, created \in {now, now + 1} :
         tasks' = InsertRow(tasks, task_id,
                            NewRow(input.task_type, input.payload, created), dbUp)
            => LET ret == AddTaskReturns(tasks, task_id, dbUp)
               IN  /\ ret = 0 => tasks' = tasks
                   /\ ret # 0 =>
                         /\ ret = task_id
                         /\ task_id \notin RowIds(tasks)
                         /\ RowIds(tasks') = RowIds(tasks) \cup {task_id}
                         /\ tasks'[task_id] =
                              NewRow(input.task_type, input.payload, created)
                         /\ \A u \in TaskIds \ {task_id} :
                              tasks'[u] = tasks[u]]_vars

\* C17 happens: the store holds a row add_task created, a call that draws the
\* same id returns None, and a call that draws the free id returns it.
C17_Witness ==
    \E t, u \in TaskIds :
        /\ tasks[t].status = "pending"
        /\ AddTaskReturns(tasks, t, dbUp) = 0
        /\ AddTaskReturns(tasks, u, dbUp) = u

\* Worker w's step is the callback POST, and it returned 2xx.
CallbackDelivered(w) ==
    pc[w] = "callback" /\ pc'[w] = "final" /\ response'[w] = "ok"

\* C18: when text generation returned text, the publish step reported success
\* and the callback POST returned 2xx, the final write persists 'completed'
\* and the callback carried status 'success'; a callback that returns 2xx
\* changes neither the status nor the message the pipeline computed.
C18_SuccessIsCompleted ==
    [][\A w \in Workers :
         /\ (FinalWriteStep(w) /\ dbUp /\ generated[w] \in {"text", "degraded"}
              /\ post_result[w] = "success" /\ response[w] = "ok") =>
                /\ tasks'[task_to_process(w).task_id].status = "completed"
                /\ tasks'[task_to_process(w).task_id].last_error = NoError
                /\ callback_payload[w].status = "success"
                /\ callback_payload[w].generated_post_id = "id"
         /\ CallbackDelivered(w) =>
                /\ final_task_status'[w] = final_task_status[w]
                /\ callback_payload'[w] = callback_payload[w]
                /\ calls'[w] = Append(calls[w], "callback")]_vars

\* C18 happens: a worker is about to write the final status of an execution
\* whose post was published and whose callback returned 2xx.
C18_Witness ==
    \E w \in Workers :
        /\ pc[w] = "final"
        /\ post_result[w] = "success"
        /\ response[w] = "ok"
        /\ final_task_status[w] = "completed"

\* The external steps of one execution, in the order of process_single_task.
StageOrder == <<"text", "image", "publish", "callback">>

StageIndex(stage) == CHOOSE i \in 1..Len(StageOrder) : StageOrder[i] = stage

\* C19: within one execution the steps happen in the order mark processing,
\* text generation, image generation, publish, callback POST, final write,
\* each at most once: the calls made so far are in that order without
\* repetition, none is made before the mark or after the final write, and each
\* stage starts only when the ones before it have been made.
C19_StagesInOrder ==
    \A w \in Workers :
        /\ \A i, j \in 1..Len(calls[w]) :
              i < j => StageIndex(calls[w][i]) < StageIndex(calls[w][j])
        /\ pc[w] \in {"fetch", "process", "init", "sleep", "text"}
              => calls[w] = <<>>
        /\ pc[w] = "image" => calls[w] = <<"text">>
        /\ pc[w] = "publish" => calls[w] = <<"text", "image">>
        /\ pc[w] = "callback" => "callback" \notin SeqRange(calls[w])
        /\ pc[w] \in {"text", "image", "publish", "callback", "final"}
              => tasks[task_to_process(w).task_id].attempts >= 1

\* C19 happens: an execution has made all four calls, in order, and is about
\* to write the final status.
C19_Witness ==
    \E w \in Workers :
        pc[w] = "final" /\ calls[w] = <<"text", "image", "publish", "callback">>

\* C20: a featured-image step that returns None neither aborts the pipeline nor
\* changes its outcome: the execution goes on to the publish step, which is
\* invoked (with featured_image_id None), and the task is written 'completed'
\* when the post is published and the callback delivered.
C20_ImageFailureNotFatal ==
    [][\A w \in Workers :
         /\ (pc[w] = "image" /\ pc'[w] # "image"
              /\ featured_image_id'[w] = "None") =>
                /\ pc'[w] = "publish"
                /\ final_task_status'[w] = final_task_status[w]
                /\ callback_payload'[w] = callback_payload[w]
         /\ (pc[w] = "publish" /\ pc'[w] # "publish"
              /\ featured_image_id[w] = "None") =>
                /\ calls'[w] = <<"text", "image", "publish">>
                /\ post_result'[w] \in {"success", "error_exception", "error_response"}
         /\ (FinalWriteStep(w) /\ dbUp /\ featured_image_id[w] = "None"
              /\ post_result[w] = "success" /\ response[w] = "ok") =>
                tasks'[task_to_process(w).task_id].status = "completed"]_vars

\* C20 happens: an execution without a featured image has published its post
\* and is about to write 'completed'.
C20_Witness ==
    \E w \in Workers :
        /\ pc[w] = "final"
        /\ featured_image_id[w] = "None"
        /\ post_result[w] = "success"
        /\ final_task_status[w] = "completed"

\* ----------------------------------------------------------- generate_content

\* Largest self.max_retries an invocation is started with (the default of
\* CLAUDE_MAX_RETRIES).
MaxRetriesBound == 3

\* brief['target_word_count'] of the invocation.
TargetWordCounts == {1000, 1500}

\* What matters of message.content[0].text.strip(): its number of words and
\* whether "sorry" / "cannot fulfill" stands near its start.  The empty string
\* has no words.
Text(words, refusal) == [words |-> words, refusal |-> refusal]

Texts ==
    { Text(n, FALSE) : n \in {0, 99, 100, 899, 900, 1000, 1349, 1350, 1400} }
        \cup { Text(n, TRUE) : n \in {99, 1000, 1400} }

\* The exceptions messages.create (or reading its reply) ends with.
ApiErrors ==
    {"APIConnectionError", "RateLimitError", "APIStatusError", "Exception"}

\* "if final_content_for_processing": bound to a non-empty string.  An
\* optional value is <<>> for None and <<v>> for v.
HasContent(content) == content # <<>> /\ content[1].words > 0

\* actual_w_count < 100 or "sorry" in ...[:100] or "cannot fulfill" in ...[:150]
BasicValidityFails(text) == text.words < 100 \/ text.refusal

\* A word count check that asks for the whole target.
MeetsWordCountFull(text, target_w_count) == text.words >= target_w_count

\* actual_w_count >= target_w_count * 0.9 (the product is exact for the
\* targets in use, so the comparison is the one of 10 * words with 9 * target).
MeetsWordCount(text, target_w_count) == 10 * text.words >= 9 * target_w_count

\* A loop test that lets one attempt too many through.
AttemptsRemainOneMore(retries, max_retries) == retries <= max_retries + 1

\* "retries <= self.max_retries": the test of the while loop and of the retry
\* logic.
AttemptsRemain(retries, max_retries) == retries <= max_retries

\* _process_claude_link_suggestions turns the link suggestions of a text into
\* links; the result is the processed form of that text.
ProcessClaudeLinkSuggestions(text) == [processed |-> text]

\* "Word count {actual_w_count} is less than 90% of target {target_w_count}"
WordCountError(text, target_w_count) ==
    Msg("Word count is less than 90% of target", <<text.words, target_w_count>>)

\* str(ve) of the ValueError the validity check raises.
InvalidContentError == Msg("Generated content potentially invalid or refused.", <<>>)

\* The locals of an invocation that has just been entered; longest is the
\* greatest word count of the texts the calls have produced so far.
Invocation(client, prompt_ok, target_w_count, max_retries) ==
    [pc |-> "entry", anthropic_client |-> client, prompt_ok |-> prompt_ok,
     target_w_count |-> target_w_count, max_retries |-> max_retries,
     retries |-> 0, final_content_for_processing |-> <<>>,
     last_error |-> NoError, llm_calls |-> 0, longest |-> 0,
     content |-> <<>>, error |-> NoError]

\* return content, error
GenReturn(g, content, error) ==
    [g EXCEPT !.pc = "returned", !.content = content, !.error = error]

\* Lines 905-923: the two early returns, then the locals of the loop.
GenEnter ==
    /\ gen.pc = "entry"
    /\ gen' = IF ~gen.anthropic_client
              THEN GenReturn(gen, <<>>, Msg("Anthropic client not initialized", <<>>))
              ELSE IF ~gen.prompt_ok
                   THEN GenReturn(gen, <<>>, Msg("Prompt generation failed", <<>>))
                   ELSE [gen EXCEPT !.pc = "loop"]
    /\ UNCHANGED <<tasks, now, dbUp, pc, tasks_limit, wp_posts, pending_tasks, locals>>

\* The retry logic after a pass that did not return: count the pass, go on
\* while attempts remain, else hand back what final_content_for_processing
\* holds, or None when it holds nothing.
RetryLogic(g) ==
    LET counted == [g EXCEPT !.retries = @ + 1]
    IN  IF AttemptsRemain(counted.retries, counted.max_retries)
        THEN counted
        ELSE IF HasContent(counted.final_content_for_processing)
             THEN GenReturn(counted,
                    <<ProcessClaudeLinkSuggestions(
                        counted.final_content_for_processing[1])>>,
                    counted.last_error)
             ELSE GenReturn(counted, <<>>, counted.last_error)

\* messages.create returned text: it is stored in final_content_for_processing
\* before any check, then checked for validity and for its word count.
OnReply(g, text) ==
    LET replied == [g EXCEPT
                      !.llm_calls = @ + 1,
                      !.final_content_for_processing = <<text>>,
                      !.longest = IF text.words > @ THEN text.words ELSE @]
    IN  IF BasicValidityFails(text)
        THEN RetryLogic([replied EXCEPT !.last_error = InvalidContentError])
        ELSE IF MeetsWordCount(text, g.target_w_count)
             THEN GenReturn(replied, <<ProcessClaudeLinkSuggestions(text)>>, NoError)
             ELSE RetryLogic([replied EXCEPT
                                !.last_error = WordCountError(text, g.target_w_count)])

\* messages.create (or reading its reply) raised: the handler records the
\* error, the locals of the reply keep their values.
OnRaise(g, exc) ==
    RetryLogic([g EXCEPT !.llm_calls = @ + 1, !.last_error = Msg(exc, <<>>)])

\* One pass of the while loop: the call, the checks of its reply or the
\* handler of its exception, then the retry logic.
GenAttempt ==
    /\ gen.pc = "loop"
    /\ AttemptsRemain(gen.retries, gen.max_retries)
    /\ \/ \E text \in Texts : gen' = OnReply(gen, text)
       \/ \E exc \in ApiErrors : gen' = OnRaise(gen, exc)
    /\ UNCHANGED <<tasks, now, dbUp, pc, tasks_limit, wp_posts, pending_tasks, locals>>

\* Line 994: the loop test fails before any pass.
GenLoopEnds ==
    /\ gen.pc = "loop"
    /\ ~AttemptsRemain(gen.retries, gen.max_retries)
    /\ gen' = GenReturn(gen, <<>>, Msg("Exceeded max retries", <<>>))
    /\ UNCHANGED <<tasks, now, dbUp, pc, tasks_limit, wp_posts, pending_tasks, locals>>

\* An invocation with any client, prompt, target and retry setting; the
\* worker side is at rest.
InitGenerate ==
    /\ tasks = [i \in TaskIds |-> NoRow]
    /\ now = 1
    /\ dbUp = TRUE
    /\ pc = [w \in Workers |-> "fetch"]
    /\ tasks_limit = 1
    /\ pending_tasks = [w \in Workers |-> <<>>]
    /\ generated = [w \in Workers |-> "unset"]
    /\ featured_image_id = [w \in Workers |-> "unset"]
    /\ post_result = [w \in Workers |-> "unbound"]
    /\ callback_payload = [w \in Workers |-> DefaultCallbackPayload]
    /\ final_task_status = [w \in Workers |-> "unset"]
    /\ response = [w \in Workers |-> "unset"]
    /\ calls = [w \in Workers |-> <<>>]
    /\ interrupted = [w \in Workers |-> FALSE]
    /\ wp_posts = {}
    /\ \E client \in BOOLEAN, prompt_ok \in BOOLEAN,
          target_w_count \in TargetWordCounts,
          max_retries \in (-1)..MaxRetriesBound :
         gen = Invocation(client, prompt_ok, target_w_count, max_retries)

NextGenerate == GenEnter \/ GenAttempt \/ GenLoopEnds

SpecGenerate == InitGenerate /\ [][NextGenerate]_vars

\* The invocation runs in one thread that nothing suspends for good: every
\* sleep is finite and every call to the API returns or raises.
FairGenerate == SpecGenerate /\ WF_vars(NextGenerate)

\* ------------------------------------------------------------------- C21

\* The value generate_content returned: accepted means a text with no error.
Accepted == gen.pc = "returned" /\ gen.content # <<>> /\ gen.error = NoError

\* C21: a pass of the loop that receives a text returns it at once with a
\* null error exactly when the text passes the validity check (100 words or
\* more, no refusal phrase) and has at least 90% of target_word_count words; a
\* shorter text is never returned with a null error and, while attempts
\* remain, the loop goes on to another call.
C21_AcceptedIffNinetyPercent ==
    [][\A text \in Texts :
         (gen.pc = "loop" /\ gen.retries <= gen.max_retries
            /\ gen' = OnReply(gen, text))
         => /\ (gen'.pc = "returned" /\ gen'.error = NoError)
                 <=> (/\ text.words >= 100
                      /\ ~text.refusal
                      /\ 10 * text.words >= 9 * gen.target_w_count)
            /\ (gen'.pc = "returned" /\ gen'.error = NoError)
                 => /\ gen'.content = <<ProcessClaudeLinkSuggestions(text)>>
                    /\ gen'.llm_calls = gen.llm_calls + 1
            /\ (10 * text.words < 9 * gen.target_w_count
                  /\ gen.retries < gen.max_retries)
                 => /\ gen'.pc = "loop"
                    /\ gen'.retries = gen.retries + 1]_vars

\* Target 1500: a 1000-word text was retried and the 1400-word text of the
\* second call was accepted at once.
C21_Witness ==
    /\ Accepted
    /\ gen.target_w_count = 1500
    /\ gen.content = <<ProcessClaudeLinkSuggestions(Text(1400, FALSE))>>
    /\ gen.last_error = WordCountError(Text(1000, FALSE), 1500)
    /\ gen.llm_calls = 2

\* ------------------------------------------------------------------- C22

\* C22: whatever the calls produce (short text, invalid text, connection
\* error, rate limit, status error, other exception), an invocation makes at
\* most max_retries + 1 calls to the LLM, makes no call after it has returned
\* (so none after the first accepted text), and always returns.
C22_TerminatesWithinMaxRetries ==
    /\ [](gen.llm_calls <= gen.max_retries + 1)
    /\ [][gen.pc = "returned" => gen' = gen]_vars
    /\ <>(gen.pc = "returned")

\* Every one of the max_retries + 1 calls was used and the last one ended in
\* a rate limit error.
C22_Witness ==
    /\ gen.pc = "returned"
    /\ gen.max_retries = MaxRetriesBound
    /\ gen.llm_calls = gen.max_retries + 1
    /\ gen.error = Msg("RateLimitError", <<>>)

\* ------------------------------------------------------------------- C23

\* The loop ended without an accepted text: every attempt was used.
Exhausted ==
    /\ gen.pc = "returned"
    /\ gen.anthropic_client /\ gen.prompt_ok
    /\ ~AttemptsRemain(gen.retries, gen.max_retries)

\* C23: when the attempts are exhausted without an accepted text, the value
\* returned is the longest of the texts the attempts produced, with a non-null
\* error, whenever some attempt produced text, and (None, error) only when no
\* attempt produced any text.
C23_ExhaustedReturnsBestText ==
    Exhausted =>
        /\ gen.error # NoError
        /\ IF gen.longest > 0
           THEN /\ gen.content # <<>>
                /\ gen.content[1].processed.words = gen.longest
           ELSE gen.content = <<>>

\* ------------------------------------------------------------------- C24

\* C24: in an execution whose generate_content call returned no text, neither
\* the image step nor the publish step is invoked, the pipeline goes straight
\* on to its end with status 'error', and the final write persists 'error'.
C24_NoTextAbortsPipeline ==
    [][\A w \in Workers :
         /\ generated'[w] = "none" =>
                /\ "image" \notin SeqRange(calls'[w])
                /\ "publish" \notin SeqRange(calls'[w])
                /\ pc'[w] \in {"callback", "final"}
                /\ final_task_status'[w] = "error"
                /\ post_result'[w] = "unbound"
         /\ (FinalWriteStep(w) /\ dbUp /\ generated[w] = "none") =>
                tasks'[task_to_process(w).task_id].status = "error"]_vars

\* C24 happens: an execution whose text step returned nothing is about to
\* write its final status, having called only the text step and the callback.
C24_Witness ==
    \E w \in Workers :
        /\ pc[w] = "final"
        /\ generated[w] = "none"
        /\ calls[w] = <<"text", "callback">>

\* ------------------------------------------------------------------- C25

\* C25: when generate_content returned no text, the error_message the callback
\* carries, and the last_error the final write stores after a delivered
\* callback, is the "Content generation failed" message with the reason
\* generate_content returned.
C25_GenerationFailureMessage ==
    [][\A w \in Workers :
         /\ (pc[w] = "callback" /\ generated[w] = "none") =>
                callback_payload[w].error_message =
                    Msg("Content generation failed", <<GenError("none")>>)
         /\ (FinalWriteStep(w) /\ dbUp /\ generated[w] = "none"
               /\ response[w] = "ok") =>
                tasks'[task_to_process(w).task_id].last_error =
                    Msg("Content generation failed", <<GenError("none")>>)]_vars

\* ------------------------------------------------------------------- C26

\* The columns an update of the status must not touch.
SameTask(before, after) ==
    /\ after.payload = before.payload
    /\ after.task_type = before.task_type
    /\ after.created_at = before.created_at

\* C26: an update_task_status call with attempts omitted, for any task id,
\* status and message, on the table of any reachable state, leaves attempts, payload, task_type and created_at of
\* every row as they were; the final status write and the validation-failure
\* write of process_single_task leave attempts unchanged; and no step of the
\* subsystem deletes a row or changes its payload, task_type or created_at.
C26_UpdateKeepsOtherColumns ==
    /\ [](\A task_id \in TaskIds, status \in Statuses,
             error_message \in MessageArgs :
            LET updated == UpdateTaskStatus(tasks, task_id, status, <<>>,
                                            error_message, dbUp)
            IN  \A i \in TaskIds :
                    /\ updated[i].attempts = tasks[i].attempts
                    /\ SameTask(tasks[i], updated[i])
                    /\ (i \in RowIds(tasks)) <=> (i \in RowIds(updated)))
    /\ [][/\ \A w \in Workers :
               (FinalWriteStep(w) \/ InvalidTaskStep(w)) =>
                   \A i \in TaskIds : tasks'[i].attempts = tasks[i].attempts
          /\ \A i \in RowIds(tasks) :
               i \in RowIds(tasks') /\ SameTask(tasks[i], tasks'[i])]_vars

\* C26 happens: the final write of an execution has stored 'completed' on a
\* row whose attempts is still the 1 the claim of the task gave it.
C26_Witness ==
    \E i \in TaskIds :
        /\ tasks[i].status = "completed"
        /\ tasks[i].attempts = 1
        /\ pc["w1"] = "sleep"

\* ------------------------------------------------------------------- C27

\* Worker w's step is the call of post_content_to_wordpress.
PublishStep(w) == pc[w] = "publish" /\ calls'[w] = Append(calls[w], "publish")

\* C27: the publish step is never invoked for a task the site already holds
\* a post for, so that at most one post is created per task over all its
\* attempts.
C27_AtMostOnePostPerTask ==
    [][\A w \in Workers :
         PublishStep(w) => task_to_process(w).task_id \notin wp_posts]_vars

\* ------------------------------------------------------------------- C28

\* C28: in every reachable state, with several workers, the attempts of every
\* task is between 0 and max_task_retries.
C28_AttemptsWithinBound ==
    \A i \in TaskIds :
        tasks[i].attempts >= 0 /\ tasks[i].attempts <= max_task_retries

\* C28 happens: a task has used every attempt and was written 'error': it is
\* no longer fetched.
C28_Witness ==
    \E i \in TaskIds :
        /\ tasks[i].status = "error"
        /\ tasks[i].attempts = max_task_retries
        /\ \A w \in Workers : pc[w] = "sleep"

\* ------------------------------------------------------------------- C29

\* Worker w's step is a failed "Initialize Services": the write of 'error'
\* and the return.
InitFailureStep(w) == pc[w] = "init" /\ pc'[w] = "sleep"

\* The number of callback POSTs worker w attempted in its execution.
CallbackPosts(w) ==
    Cardinality({k \in 1..Len(calls[w]) : calls[w][k] = "callback"})

\* C29: an execution whose service initialisation fails writes 'error' on a
\* task whose attempts the claim has already incremented, runs no text, image
\* or publish step and sends no callback; every other execution that got past
\* the claim ends with the final write, having attempted exactly one callback
\* POST when callback_url is not empty (and none when it is empty).
C29_InitFailureSendsNoCallback ==
    [][\A w \in Workers :
         /\ InitFailureStep(w) =>
                /\ calls[w] = <<>>
                /\ response[w] = "unset"
                /\ tasks[task_to_process(w).task_id].attempts >= 1
                /\ tasks'[task_to_process(w).task_id].attempts =
                       tasks[task_to_process(w).task_id].attempts
                /\ dbUp => tasks'[task_to_process(w).task_id].status = "error"
         /\ (Holds(w) /\ pc'[w] = "sleep" /\ ~InitFailureStep(w)) =>
                /\ pc[w] = "final"
                /\ CallbackPosts(w) =
                       IF task_to_process(w).payload.callback_url # ""
                       THEN 1 ELSE 0]_vars

\* C29 happens: an initialisation failure has left the task in 'error' with
\* attempts 1 and the worker back in its loop.
C29_Witness ==
    \E i \in TaskIds :
        /\ tasks[i].status = "error"
        /\ tasks[i].attempts = 1
        /\ tasks[i].last_error = InitErrorMessage("ValueError")
        /\ pc["w1"] = "sleep"

\* ------------------------------------------------------------------- C30

\* C30: the content generate_content returns, accepted or degraded, is never
\* a text that failed the basic validity check: it has 100 words or more and
\* no refusal phrase near its start.
C30_InvalidTextNeverReturned ==
    (gen.pc = "returned" /\ gen.content # <<>>) =>
        /\ gen.content[1].processed.words >= 100
        /\ ~gen.content[1].processed.refusal


====
